---- MODULE Spec2Model ----
(***************************************************************************)
(* Model of the remote-backed business directory component                 *)
(* (src/src/components/BusinessTable.tsx).                                 *)
(*                                                                         *)
(* The state is the component's useState cells, the server's collection,   *)
(* and the set of handler invocations that are suspended at an await.  A   *)
(* suspended invocation keeps the values its closure captured when the     *)
(* user triggered it (React closures do not see later renders).            *)
(* The server processes a request and the client resumes the handler in    *)
(* one step; requests of different invocations complete in any order.      *)
(* A request that does not succeed leaves the server's collection as it    *)
(* was.  The dialogs are modal: while one is open the page's controls      *)
(* cannot be reached, but a dialog can always be dismissed (onOpenChange), *)
(* also while its request is pending.                                      *)
(***************************************************************************)
EXTENDS Integers, Sequences, FiniteSets, TLC

(***************************************************************************)
(* Bounds of the model.                                                    *)
(***************************************************************************)
\* number of mutation requests (POST / PUT / DELETE) the user may issue
MaxRequests == 3
\* number of field edits the user may make in the add/edit dialog
MaxEdits == 1
\* number of times the user may open a dialog from the page
MaxOpens == 3
\* the same two bounds for the shorter sessions of ShortSpec
ShortRequests == 2
ShortOpens == 2
\* the same two bounds for the behaviours checked under fairness
FairRequests == 1
FairOpens == 1
\* the same two bounds for the sessions on a collection of two pages
PageRequests == 1
PageOpens == 1
\* length of the longest hand-made sample collection
MaxSmall == 3
\* the longest generated sample collection fills this many pages and one
\* record more
MaxPages == 6
\* the Next control is followed up to this page
MaxPage == MaxPages + 2

(***************************************************************************)
(* Data.  Texts are sequences of one-character strings.                    *)
(***************************************************************************)
Statuses == {"green", "yellow", "red"}

\* ids are positive; id 0 stands for null (Business | null, number | null)
NoBusiness ==
    [id |-> 0, businessName |-> <<>>, phone |-> <<>>, businessType |-> <<>>,
     comment |-> <<>>, status |-> "", createdAt |-> 0]

\* createdAt 0 stands for an absent timestamp
InitialServer ==
    << [id |-> 1, businessName |-> <<"A">>, phone |-> <<" ">>,
        businessType |-> <<>>, comment |-> <<>>, status |-> "",
        createdAt |-> 1],
       [id |-> 2, businessName |-> <<"b">>, phone |-> <<"2">>,
        businessType |-> <<>>, comment |-> <<>>, status |-> "green",
        createdAt |-> 0] >>

\* what the user types into the phone input, before the onChange cleaning
RawPhones == { <<"0", " ", "2">> }
TypedNames == { <<"B">> }
TypedTypes == { <<"t">> }
TypedComments == { <<"c">> }
\* the status buttons the user presses (each handler takes the status as its
\* argument and treats the three alike)
StatusChoices == { "yellow" }

\* the reading of new Date() when the add dialog is opened
Now == 2

\* what the user types into the two search inputs
NameFilters == { <<>>, <<"B">>, <<"a", "B">> }
PhoneFilters == { <<>>, <<"2">>, <<"1", "2">> }

\* records for the hand-made sample collections: names that differ in case,
\* phones that contain one another, two equal timestamps and a missing one
Pool ==
    << [id |-> 1, businessName |-> <<"A", "b">>, phone |-> <<"1", "2">>,
        businessType |-> <<>>, comment |-> <<>>, status |-> "",
        createdAt |-> 1],
       [id |-> 2, businessName |-> <<"b">>, phone |-> <<"2", "1">>,
        businessType |-> <<>>, comment |-> <<>>, status |-> "green",
        createdAt |-> 2],
       [id |-> 3, businessName |-> <<"B", "a">>, phone |-> <<"2">>,
        businessType |-> <<>>, comment |-> <<>>, status |-> "",
        createdAt |-> 1],
       [id |-> 4, businessName |-> <<"A">>, phone |-> <<" ">>,
        businessType |-> <<>>, comment |-> <<>>, status |-> "red",
        createdAt |-> 0] >>

\* every arrangement of up to MaxSmall different records of the pool
SmallCollections ==
    { [k \in 1..Len(pick) |-> Pool[pick[k]]] :
        pick \in { q \in UNION { [1..n -> 1..Len(Pool)] : n \in 0..MaxSmall } :
                     \A j, k \in 1..Len(q) : q[j] = q[k] => j = k } }

\* a collection of n records with ids 1..n, alternating names and phones,
\* and timestamps that repeat
Generated(n) ==
    [k \in 1..n |->
        [id |-> k,
         businessName |-> IF k % 2 = 0 THEN <<"b">> ELSE <<"A">>,
         phone |-> IF k % 3 = 0 THEN <<"2">> ELSE <<"1">>,
         businessType |-> <<>>, comment |-> <<>>, status |-> "",
         createdAt |-> k % 4]]

\* outcome of a request: status "success", another status, transport failure
Outcomes == {"success", "error", "fail"}

(***************************************************************************)
(* Pure helpers.                                                           *)
(***************************************************************************)
RECURSIVE TrimStart(_)
TrimStart(s) ==
    IF s # <<>> /\ Head(s) = " " THEN TrimStart(Tail(s)) ELSE s

RECURSIVE TrimEnd(_)
TrimEnd(s) ==
    IF s # <<>> /\ s[Len(s)] = " " THEN TrimEnd(SubSeq(s, 1, Len(s) - 1)) ELSE s

\* String.prototype.trim
Trim(s) == TrimEnd(TrimStart(s))

RECURSIVE StripLeadingZeros(_)
StripLeadingZeros(s) ==
    IF s # <<>> /\ Head(s) = "0" THEN StripLeadingZeros(Tail(s)) ELSE s

IsNotSpace(c) == c # " "

\* the phone input's onChange: remove all whitespace, then leading zeros
CleanPhone(raw) == StripLeadingZeros(SelectSeq(raw, IsNotSpace))

Ids(list) == { list[i].id : i \in 1..Len(list) }

Max(S) == CHOOSE m \in S : \A x \in S : x <= m

\* Math.max(...businesses.map(b => b.id), 0) + 1
NextId(list) == Max(Ids(list) \cup {0}) + 1

\* businesses.find(b => b.phone === candidate.phone && b.id !== candidate.id)
HasDuplicatePhone(list, candidate) ==
    \E i \in 1..Len(list) :
        list[i].phone = candidate.phone /\ list[i].id # candidate.id

\* businesses.map(b => b.id === id ? { ...b, status: newStatus } : b)
PatchStatus(list, id, newStatus) ==
    [i \in 1..Len(list) |->
        IF list[i].id = id THEN [list[i] EXCEPT !.status = newStatus]
        ELSE list[i]]

(***************************************************************************)
(* The HTTP API (section 6 of the specification).                          *)
(***************************************************************************)
ServerCreate(coll, body) == Append(coll, body)

ServerUpdate(coll, id, body) ==
    [i \in 1..Len(coll) |-> IF coll[i].id = id THEN body ELSE coll[i]]

ServerDelete(coll, id) ==
    LET Keep(b) == b.id # id IN SelectSeq(coll, Keep)

(***************************************************************************)
(* State.                                                                  *)
(***************************************************************************)
VARIABLES
    server,                  \* the server's collection
    businesses,              \* useState<Business[]>([])
    editingBusiness,         \* useState<Business | null>(null)
    isDialogOpen,            \* useState(false)
    isAddMode,               \* useState(false)
    loading,                 \* useState(true)
    deleteDialogOpen,        \* useState(false)
    businessToDelete,        \* useState<number | null>(null), 0 = null
    statusDialogOpen,        \* useState(false)
    businessToUpdateStatus,  \* useState<Business | null>(null)
    isSaving,                \* useState(false)
    isDeleting,              \* useState(false)
    searchName,              \* useState("")
    searchPhone,             \* useState("")
    sortBy,                  \* useState("date-new")
    currentPage,             \* useState(1)
    touched,                 \* the form fields edited in the add/edit
                             \* dialog session on screen
    inflight,                \* handler invocations suspended at an await
    budget,                  \* what the user may still do: mutation
                             \* requests, field edits, dialog openings
    lastEvent                \* the handler step taken last, with its toasts

uiVars == <<businesses, editingBusiness, isDialogOpen, isAddMode, loading,
            deleteDialogOpen, businessToDelete, statusDialogOpen,
            businessToUpdateStatus, isSaving, isDeleting>>

viewVars == <<searchName, searchPhone, sortBy, currentPage>>

vars == <<server, businesses, editingBusiness, isDialogOpen, isAddMode,
          loading, deleteDialogOpen, businessToDelete, statusDialogOpen,
          businessToUpdateStatus, isSaving, isDeleting, searchName,
          searchPhone, sortBy, currentPage, touched, inflight, budget,
          lastEvent>>

\* the component's state as one record, so that a handler's continuation is
\* a function from the state before to the state after
UI ==
    [businesses |-> businesses, editingBusiness |-> editingBusiness,
     isDialogOpen |-> isDialogOpen, isAddMode |-> isAddMode,
     loading |-> loading, deleteDialogOpen |-> deleteDialogOpen,
     businessToDelete |-> businessToDelete,
     statusDialogOpen |-> statusDialogOpen,
     businessToUpdateStatus |-> businessToUpdateStatus,
     isSaving |-> isSaving, isDeleting |-> isDeleting]

\* the render after a handler step: every useState cell takes its new value
Render(ui) ==
    /\ businesses' = ui.businesses
    /\ editingBusiness' = ui.editingBusiness
    /\ isDialogOpen' = ui.isDialogOpen
    /\ isAddMode' = ui.isAddMode
    /\ loading' = ui.loading
    /\ deleteDialogOpen' = ui.deleteDialogOpen
    /\ businessToDelete' = ui.businessToDelete
    /\ statusDialogOpen' = ui.statusDialogOpen
    /\ businessToUpdateStatus' = ui.businessToUpdateStatus
    /\ isSaving' = ui.isSaving
    /\ isDeleting' = ui.isDeleting

Event(handler, step, outcome, toasts) ==
    [handler |-> handler, step |-> step, outcome |-> outcome,
     toasts |-> toasts]

\* a step of the user that calls state setters only and awaits nothing
UserEvent == Event("user", "input", "done", <<>>)

\* a handler invocation suspended at an await, with what its closure holds
\* and, for a save, the form fields that were edited in its dialog session
Invocation(ticket, op, stage, body, newStatus, closure, edited) ==
    [ticket |-> ticket, op |-> op, stage |-> stage, body |-> body,
     newStatus |-> newStatus, closure |-> closure, edited |-> edited]

\* the useEffect on mount has called fetchBusinesses
StartWith(data, requests, opens) ==
    /\ server = data
    /\ businesses = <<>>
    /\ editingBusiness = NoBusiness
    /\ isDialogOpen = FALSE
    /\ isAddMode = FALSE
    /\ loading = TRUE
    /\ deleteDialogOpen = FALSE
    /\ businessToDelete = 0
    /\ statusDialogOpen = FALSE
    /\ businessToUpdateStatus = NoBusiness
    /\ isSaving = FALSE
    /\ isDeleting = FALSE
    /\ searchName = <<>>
    /\ searchPhone = <<>>
    /\ sortBy = "date-new"
    /\ currentPage = 1
    /\ touched = {}
    /\ inflight = {Invocation(0, "load", "list", NoBusiness, "", <<>>, {})}
    /\ budget = [requests |-> requests, edits |-> MaxEdits, opens |-> opens]
    /\ lastEvent = Event("mount", "effect", "issued", <<>>)

Start(requests, opens) == StartWith(InitialServer, requests, opens)

Init == Start(MaxRequests, MaxOpens)

\* the dialogs are modal and the table is not rendered while loading
PageInteractive ==
    ~loading /\ ~isDialogOpen /\ ~deleteDialogOpen /\ ~statusDialogOpen

(***************************************************************************)
(* The view: filter, sort, paginate.                                       *)
(***************************************************************************)
itemsPerPage == 30

\* lengths around the page boundaries
SampleLengths ==
    { itemsPerPage - 1, itemsPerPage, itemsPerPage + 1,
      2 * itemsPerPage, 2 * itemsPerPage + 1, MaxPages * itemsPerPage + 1 }

SampleCollections ==
    SmallCollections \cup { Generated(n) : n \in SampleLengths }

SortModes == {"name", "date-new", "date-old", "none"}

\* String.prototype.toLowerCase, on the letters that occur
LowerChar(c) ==
    CASE c = "A" -> "a"
      [] c = "B" -> "b"
      [] OTHER -> c

toLowerCase(s) == [k \in 1..Len(s) |-> LowerChar(s[k])]

\* String.prototype.includes: sub occurs in s as a contiguous substring
includes(s, sub) ==
    \E k \in 0..(Len(s) - Len(sub)) : SubSeq(s, k + 1, k + Len(sub)) = sub

\* the filter callback with the name filter compared as typed
MatchesFilterAsTyped(business, name, phone) ==
    /\ includes(toLowerCase(business.businessName), name)
    /\ includes(business.phone, phone)

\* the predicate of the filter callback
MatchesFilter(business, name, phone) ==
    /\ includes(toLowerCase(business.businessName), toLowerCase(name))
    /\ includes(business.phone, phone)

\* the characters that occur, in the order of the default collation:
\* space, digits, letters with the lower case first
Collation == <<" ", "0", "1", "2", "a", "A", "b", "B", "c", "t">>

CollationRank(c) ==
    IF \E k \in 1..Len(Collation) : Collation[k] = c
    THEN CHOOSE k \in 1..Len(Collation) : Collation[k] = c
    ELSE 0

RECURSIVE LexCompare(_, _)
\* the sign of the first difference of two rank sequences
LexCompare(x, y) ==
    CASE x = <<>> /\ y = <<>> -> 0
      [] x = <<>> /\ y # <<>> -> -1
      [] x # <<>> /\ y = <<>> -> 1
      [] OTHER -> IF Head(x) = Head(y) THEN LexCompare(Tail(x), Tail(y))
                  ELSE IF Head(x) < Head(y) THEN -1 ELSE 1

\* String.prototype.localeCompare: the letters decide first, their case then
localeCompare(s, t) ==
    LET primary(u) == [k \in 1..Len(u) |-> CollationRank(LowerChar(u[k]))]
        tertiary(u) == [k \in 1..Len(u) |-> CollationRank(u[k])]
    IN  IF LexCompare(primary(s), primary(t)) # 0
        THEN LexCompare(primary(s), primary(t))
        ELSE LexCompare(tertiary(s), tertiary(t))

\* the comparator with the oldest-first mode comparing like newest-first
compareBusinessesNewestOnly(a, b, mode) ==
    CASE mode = "name" -> localeCompare(a.businessName, b.businessName)
      [] mode \in {"date-new", "date-old"} ->
            IF a.createdAt = 0 /\ b.createdAt = 0 THEN 0
            ELSE IF a.createdAt = 0 THEN 1
            ELSE IF b.createdAt = 0 THEN -1
            ELSE b.createdAt - a.createdAt
      [] OTHER -> 0

\* the comparator of the sort callback; createdAt 0 is a missing timestamp
compareBusinesses(a, b, mode) ==
    CASE mode = "name" -> localeCompare(a.businessName, b.businessName)
      [] mode = "date-new" ->
            IF a.createdAt = 0 /\ b.createdAt = 0 THEN 0
            ELSE IF a.createdAt = 0 THEN 1
            ELSE IF b.createdAt = 0 THEN -1
            ELSE b.createdAt - a.createdAt
      [] mode = "date-old" ->
            IF a.createdAt = 0 /\ b.createdAt = 0 THEN 0
            ELSE IF a.createdAt = 0 THEN 1
            ELSE IF b.createdAt = 0 THEN -1
            ELSE a.createdAt - b.createdAt
      [] OTHER -> 0

RECURSIVE StableSort(_, _)
\* Array.prototype.sort: a stable sort by the comparator.  The elements that
\* compare smallest come first, in the order they stood in, then the rest
StableSort(list, mode) ==
    IF list = <<>> THEN <<>>
    ELSE LET least == list[CHOOSE k \in 1..Len(list) :
                         \A j \in 1..Len(list) :
                            compareBusinesses(list[k], list[j], mode) <= 0]
         IN  SelectSeq(list, LAMBDA b :
                               compareBusinesses(b, least, mode) = 0)
             \o StableSort(SelectSeq(list, LAMBDA b :
                               compareBusinesses(b, least, mode) # 0), mode)

\* businesses.filter(...).sort(...)
FilterSort(list, name, phone, mode) ==
    StableSort(SelectSeq(list, LAMBDA b : MatchesFilter(b, name, phone)),
               mode)

filteredBusinesses == FilterSort(businesses, searchName, searchPhone, sortBy)

\* Math.ceil(n / d) for n >= 0 and d > 0
Ceil(n, d) == (n + d - 1) \div d

PageCount(n) == Ceil(n, itemsPerPage)

totalPages == PageCount(Len(filteredBusinesses))

Min(a, b) == IF a <= b THEN a ELSE b

\* Array.prototype.slice(start, end) with 0 <= start <= end
slice(list, start, end) ==
    SubSeq(list, Min(start, Len(list)) + 1, Min(end, Len(list)))

\* PageOf with the end of the slice one position early
PageOfShort(list, page) ==
    LET startIndex == (page - 1) * itemsPerPage
        endIndex == startIndex + itemsPerPage - 1
    IN  slice(list, startIndex, endIndex)

\* startIndex, endIndex and the slice of one page
PageOf(list, page) ==
    LET startIndex == (page - 1) * itemsPerPage
        endIndex == startIndex + itemsPerPage
    IN  slice(list, startIndex, endIndex)

paginatedBusinesses == PageOf(filteredBusinesses, currentPage)

\* the rows on screen, each with its Edit, Delete and status controls
Rows == { paginatedBusinesses[k] : k \in 1..Len(paginatedBusinesses) }

(***************************************************************************)
(* fetchBusinesses: the continuation after the list request.               *)
(***************************************************************************)
\* fetchBusinesses with setLoading(false) at the end of the try block instead
\* of in a finally
fetchBusinessesNoFinally(ui, outcome, data) ==
    [ui |-> [ui EXCEPT
                !.businesses = IF outcome = "success" THEN data ELSE @,
                !.loading = IF outcome = "fail" THEN @ ELSE FALSE],
     toasts |-> CASE outcome = "success" ->
                       <<"success: Data loaded from MongoDB">>
                  [] outcome = "error" -> <<>>
                  [] outcome = "fail" ->
                       <<"error: Failed to connect to backend">>]

fetchBusinesses(ui, outcome, data) ==
    [ui |-> [ui EXCEPT
                !.businesses = IF outcome = "success" THEN data ELSE @,
                !.loading = FALSE],
     toasts |-> CASE outcome = "success" ->
                       <<"success: Data loaded from MongoDB">>
                  [] outcome = "error" -> <<>>
                  [] outcome = "fail" ->
                       <<"error: Failed to connect to backend">>]

\* the initial load completes
LoadResponse ==
    \E r \in inflight, outcome \in Outcomes :
        /\ r.op = "load"
        /\ LET eff == fetchBusinesses(UI, outcome, server) IN
            /\ Render(eff.ui)
            /\ lastEvent' = Event("fetchBusinesses", "loaded", outcome,
                                  eff.toasts)
        /\ inflight' = inflight \ {r}
        /\ UNCHANGED <<server, budget>>
        /\ UNCHANGED <<viewVars, touched>>

(***************************************************************************)
(* Page-level controls.                                                    *)
(***************************************************************************)
handleStatusClick ==
    /\ PageInteractive
    /\ budget.opens > 0
    /\ \E business \in Rows :
            /\ budget' = [budget EXCEPT !.opens = @ - 1]
            /\ businessToUpdateStatus' = business
            /\ statusDialogOpen' = TRUE
            /\ lastEvent' = UserEvent
            /\ UNCHANGED <<server, businesses, editingBusiness, isDialogOpen,
                           isAddMode, loading, deleteDialogOpen, businessToDelete,
                           isSaving, isDeleting, inflight>>
            /\ UNCHANGED <<viewVars, touched>>

handleEdit ==
    /\ PageInteractive
    /\ budget.opens > 0
    /\ \E business \in Rows :
            /\ budget' = [budget EXCEPT !.opens = @ - 1]
            /\ editingBusiness' = business
            /\ isAddMode' = FALSE
            /\ isDialogOpen' = TRUE
            /\ touched' = {}
            /\ lastEvent' = UserEvent
            /\ UNCHANGED <<server, businesses, loading, deleteDialogOpen,
                           businessToDelete, statusDialogOpen,
                           businessToUpdateStatus, isSaving, isDeleting, inflight>>
            /\ UNCHANGED viewVars

handleAdd ==
    /\ PageInteractive
    /\ budget.opens > 0
    /\ budget' = [budget EXCEPT !.opens = @ - 1]
    /\ editingBusiness' =
           [id |-> NextId(businesses), businessName |-> <<>>, phone |-> <<>>,
            businessType |-> <<>>, comment |-> <<>>, status |-> "",
            createdAt |-> Now]
    /\ isAddMode' = TRUE
    /\ isDialogOpen' = TRUE
    /\ touched' = {}
    /\ lastEvent' = UserEvent
    /\ UNCHANGED <<server, businesses, loading, deleteDialogOpen,
                   businessToDelete, statusDialogOpen, businessToUpdateStatus,
                   isSaving, isDeleting, inflight>>
    /\ UNCHANGED viewVars

handleDeleteClick ==
    /\ PageInteractive
    /\ budget.opens > 0
    /\ \E business \in Rows :
            /\ budget' = [budget EXCEPT !.opens = @ - 1]
            /\ businessToDelete' = business.id
            /\ deleteDialogOpen' = TRUE
            /\ lastEvent' = UserEvent
            /\ UNCHANGED <<server, businesses, editingBusiness, isDialogOpen,
                           isAddMode, loading, statusDialogOpen,
                           businessToUpdateStatus, isSaving, isDeleting, inflight>>
            /\ UNCHANGED <<viewVars, touched>>

(***************************************************************************)
(* The add/edit dialog.                                                    *)
(***************************************************************************)
\* the form fields are rendered when the dialog is open with a candidate;
\* the inputs are not disabled while a save is pending
FormShown == isDialogOpen /\ editingBusiness # NoBusiness

\* the record of the edited fields ends with the dialog session
KeepSession == touched' = IF isDialogOpen' THEN touched ELSE {}

EditField(field, candidate) ==
    /\ FormShown
    /\ budget.edits > 0
    /\ editingBusiness' = candidate
    /\ touched' = touched \cup {field}
    /\ budget' = [budget EXCEPT !.edits = @ - 1]
    /\ lastEvent' = UserEvent
    /\ UNCHANGED <<server, businesses, isDialogOpen, isAddMode, loading,
                   deleteDialogOpen, businessToDelete, statusDialogOpen,
                   businessToUpdateStatus, isSaving, isDeleting, inflight>>
    /\ UNCHANGED viewVars

ChangeBusinessName ==
    \E v \in TypedNames :
        EditField("businessName", [editingBusiness EXCEPT !.businessName = v])

ChangePhone ==
    \E raw \in RawPhones :
        EditField("phone", [editingBusiness EXCEPT !.phone = CleanPhone(raw)])

ChangeBusinessType ==
    \E v \in TypedTypes :
        EditField("businessType", [editingBusiness EXCEPT !.businessType = v])

\* the comment and status controls are rendered only in edit mode
ChangeComment ==
    \E v \in TypedComments :
        /\ ~isAddMode
        /\ EditField("comment", [editingBusiness EXCEPT !.comment = v])

ChooseStatus ==
    \E v \in StatusChoices :
        /\ ~isAddMode
        /\ EditField("status", [editingBusiness EXCEPT !.status = v])

\* Cancel (disabled while saving) and the dialog's own dismissal
\* (onOpenChange, never disabled) both only call setIsDialogOpen(false)
CloseDialog ==
    \E via \in {"cancel", "dismiss"} :
        /\ isDialogOpen
        /\ via = "cancel" => ~isSaving
        /\ isDialogOpen' = FALSE
        /\ lastEvent' = UserEvent
        /\ UNCHANGED <<server, businesses, editingBusiness, isAddMode,
                       loading, deleteDialogOpen, businessToDelete,
                       statusDialogOpen, businessToUpdateStatus, isSaving,
                       isDeleting, inflight, budget>>
        /\ UNCHANGED viewVars
        /\ KeepSession

\* handleSaveValidate without setIsSaving(true) ahead of the request
handleSaveValidateNoFlag(ui, list) ==
    CASE ui.editingBusiness = NoBusiness ->
            [outcome |-> "no-candidate", ui |-> ui, toasts |-> <<>>]
      [] ui.editingBusiness # NoBusiness
           /\ Trim(ui.editingBusiness.phone) = <<>> ->
            [outcome |-> "phone-required", ui |-> ui,
             toasts |-> <<"error: Phone number is required">>]
      [] ui.editingBusiness # NoBusiness
           /\ Trim(ui.editingBusiness.phone) # <<>>
           /\ HasDuplicatePhone(list, ui.editingBusiness) ->
            [outcome |-> "duplicate", ui |-> ui,
             toasts |-> <<"error: Mobile number already exists">>]
      [] OTHER ->
            [outcome |-> "issued", ui |-> ui, toasts |-> <<>>]

\* handleSaveValidate with the phone compared to "" without trim()
handleSaveValidateNoTrim(ui, list) ==
    CASE ui.editingBusiness = NoBusiness ->
            [outcome |-> "no-candidate", ui |-> ui, toasts |-> <<>>]
      [] ui.editingBusiness # NoBusiness
           /\ ui.editingBusiness.phone = <<>> ->
            [outcome |-> "phone-required", ui |-> ui,
             toasts |-> <<"error: Phone number is required">>]
      [] ui.editingBusiness # NoBusiness
           /\ ui.editingBusiness.phone # <<>>
           /\ HasDuplicatePhone(list, ui.editingBusiness) ->
            [outcome |-> "duplicate", ui |-> ui,
             toasts |-> <<"error: Mobile number already exists">>]
      [] OTHER ->
            [outcome |-> "issued", ui |-> [ui EXCEPT !.isSaving = TRUE],
             toasts |-> <<>>]

\* handleSave up to its first await: validation, setIsSaving(true), request
handleSaveValidate(ui, list) ==
    CASE ui.editingBusiness = NoBusiness ->
            [outcome |-> "no-candidate", ui |-> ui, toasts |-> <<>>]
      [] ui.editingBusiness # NoBusiness
           /\ Trim(ui.editingBusiness.phone) = <<>> ->
            [outcome |-> "phone-required", ui |-> ui,
             toasts |-> <<"error: Phone number is required">>]
      [] ui.editingBusiness # NoBusiness
           /\ Trim(ui.editingBusiness.phone) # <<>>
           /\ HasDuplicatePhone(list, ui.editingBusiness) ->
            [outcome |-> "duplicate", ui |-> ui,
             toasts |-> <<"error: Mobile number already exists">>]
      [] OTHER ->
            [outcome |-> "issued", ui |-> [ui EXCEPT !.isSaving = TRUE],
             toasts |-> <<>>]

\* the Save button is disabled while isSaving
handleSave ==
    /\ isDialogOpen
    /\ ~isSaving
    /\ budget.requests > 0
    /\ LET v == handleSaveValidate(UI, businesses) IN
        /\ Render(v.ui)
        /\ lastEvent' = Event("handleSave", "click", v.outcome, v.toasts)
        /\ IF v.outcome = "issued"
           THEN /\ inflight' = inflight \cup
                       {Invocation(budget.requests,
                                   IF isAddMode THEN "create" ELSE "update",
                                   "request", editingBusiness, "", <<>>,
                                   touched)}
                /\ budget' = [budget EXCEPT !.requests = @ - 1]
           ELSE UNCHANGED <<inflight, budget>>
    /\ UNCHANGED server
    /\ UNCHANGED <<viewVars, touched>>

\* handleSaveFailed with setIsSaving(false) at the end of the try block
\* instead of in a finally
handleSaveFailedNoFinally(ui, outcome) ==
    IF outcome = "error"
    THEN [ui |-> [ui EXCEPT !.isDialogOpen = FALSE,
                            !.editingBusiness = NoBusiness,
                            !.isSaving = FALSE],
          toasts |-> <<>>]
    ELSE [ui |-> ui, toasts |-> <<"error: Failed to save business">>]

\* the continuation of handleSave when the create/update request did not
\* succeed: a non-success status falls through the if, a transport failure
\* goes to the catch; the finally runs in both
handleSaveFailed(ui, outcome) ==
    IF outcome = "error"
    THEN [ui |-> [ui EXCEPT !.isDialogOpen = FALSE,
                            !.editingBusiness = NoBusiness,
                            !.isSaving = FALSE],
          toasts |-> <<>>]
    ELSE [ui |-> [ui EXCEPT !.isSaving = FALSE],
          toasts |-> <<"error: Failed to save business">>]

\* the continuation of handleSave after await fetchBusinesses()
handleSaveRefetched(ui, op, outcome, data) ==
    LET f == fetchBusinesses(ui, outcome, data) IN
    [ui |-> [f.ui EXCEPT !.isDialogOpen = FALSE,
                         !.editingBusiness = NoBusiness,
                         !.isSaving = FALSE],
     toasts |-> f.toasts \o
                  << IF op = "create"
                     THEN "success: Business added to MongoDB"
                     ELSE "success: Business updated in MongoDB" >>]

\* the server can answer success to an update or delete of a stored id only
CanSucceed(r) ==
    r.op \in {"update", "status", "delete"} => r.body.id \in Ids(server)

ServerApply(r) ==
    CASE r.op = "create" -> ServerCreate(server, r.body)
      [] r.op \in {"update", "status"} ->
            ServerUpdate(server, r.body.id, r.body)
      [] r.op = "delete" -> ServerDelete(server, r.body.id)

\* the create/update request completes
handleSaveResponse ==
    \E r \in inflight, outcome \in Outcomes :
        /\ r.op \in {"create", "update"}
        /\ r.stage = "request"
        /\ outcome = "success" => CanSucceed(r)
        /\ IF outcome = "success"
           THEN /\ server' = ServerApply(r)
                /\ inflight' = (inflight \ {r}) \cup {[r EXCEPT !.stage = "list"]}
                /\ lastEvent' = Event("handleSave", "response", outcome, <<>>)
                /\ UNCHANGED uiVars
           ELSE LET eff == handleSaveFailed(UI, outcome) IN
                /\ Render(eff.ui)
                /\ lastEvent' = Event("handleSave", "response", outcome,
                                      eff.toasts)
                /\ inflight' = inflight \ {r}
                /\ UNCHANGED server
        /\ UNCHANGED budget
        /\ UNCHANGED viewVars
        /\ KeepSession

\* the re-fetch issued by handleSave completes and handleSave finishes
handleSaveRefetch ==
    \E r \in inflight, outcome \in Outcomes :
        /\ r.op \in {"create", "update"}
        /\ r.stage = "list"
        /\ LET eff == handleSaveRefetched(UI, r.op, outcome, server) IN
            /\ Render(eff.ui)
            /\ lastEvent' = Event("handleSave", "refetched", outcome,
                                  eff.toasts)
        /\ inflight' = inflight \ {r}
        /\ UNCHANGED <<server, budget>>
        /\ UNCHANGED viewVars
        /\ KeepSession

(***************************************************************************)
(* The delete-confirmation dialog.                                         *)
(***************************************************************************)
\* Cancel (disabled while deleting) and the dialog's own dismissal
\* (onOpenChange, never disabled) both only call setDeleteDialogOpen(false)
CloseDeleteDialog ==
    \E via \in {"cancel", "dismiss"} :
        /\ deleteDialogOpen
        /\ via = "cancel" => ~isDeleting
        /\ deleteDialogOpen' = FALSE
        /\ lastEvent' = UserEvent
        /\ UNCHANGED <<server, businesses, editingBusiness, isDialogOpen,
                       isAddMode, loading, businessToDelete, statusDialogOpen,
                       businessToUpdateStatus, isSaving, isDeleting, inflight, budget>>
        /\ UNCHANGED <<viewVars, touched>>

\* handleDeleteConfirm up to its first await; the button is disabled while
\* isDeleting
handleDeleteConfirm ==
    /\ deleteDialogOpen
    /\ ~isDeleting
    /\ budget.requests > 0
    /\ IF businessToDelete = 0
       THEN /\ lastEvent' = Event("handleDeleteConfirm", "click",
                                  "no-target", <<>>)
            /\ UNCHANGED <<isDeleting, inflight, budget>>
       ELSE /\ isDeleting' = TRUE
            /\ inflight' = inflight \cup
                   {Invocation(budget.requests, "delete", "request",
                               [NoBusiness EXCEPT !.id = businessToDelete],
                               "", <<>>, {})}
            /\ budget' = [budget EXCEPT !.requests = @ - 1]
            /\ lastEvent' = Event("handleDeleteConfirm", "click", "issued",
                                  <<>>)
    /\ UNCHANGED <<server, businesses, editingBusiness, isDialogOpen,
                   isAddMode, loading, deleteDialogOpen, businessToDelete,
                   statusDialogOpen, businessToUpdateStatus, isSaving>>
    /\ UNCHANGED <<viewVars, touched>>

\* the finally block of handleDeleteConfirm
handleDeleteFinally(ui) ==
    [ui EXCEPT !.isDeleting = FALSE,
               !.deleteDialogOpen = FALSE,
               !.businessToDelete = 0]

\* handleDeleteFailed with the cleanup at the end of the try block instead
\* of in a finally
handleDeleteFailedNoFinally(ui, outcome) ==
    [ui |-> IF outcome = "error" THEN handleDeleteFinally(ui) ELSE ui,
     toasts |-> IF outcome = "error" THEN <<>>
                ELSE <<"error: Failed to delete business">>]

\* the continuation of handleDeleteConfirm when the delete request did not
\* succeed
handleDeleteFailed(ui, outcome) ==
    [ui |-> handleDeleteFinally(ui),
     toasts |-> IF outcome = "error" THEN <<>>
                ELSE <<"error: Failed to delete business">>]

\* the continuation of handleDeleteConfirm after await fetchBusinesses()
handleDeleteRefetched(ui, outcome, data) ==
    LET f == fetchBusinesses(ui, outcome, data) IN
    [ui |-> handleDeleteFinally(f.ui),
     toasts |-> f.toasts \o <<"success: Business deleted from MongoDB">>]

\* the delete request completes
handleDeleteResponse ==
    \E r \in inflight, outcome \in Outcomes :
        /\ r.op = "delete"
        /\ r.stage = "request"
        /\ outcome = "success" => CanSucceed(r)
        /\ IF outcome = "success"
           THEN /\ server' = ServerApply(r)
                /\ inflight' = (inflight \ {r}) \cup {[r EXCEPT !.stage = "list"]}
                /\ lastEvent' = Event("handleDeleteConfirm", "response",
                                      outcome, <<>>)
                /\ UNCHANGED uiVars
           ELSE LET eff == handleDeleteFailed(UI, outcome) IN
                /\ Render(eff.ui)
                /\ lastEvent' = Event("handleDeleteConfirm", "response",
                                      outcome, eff.toasts)
                /\ inflight' = inflight \ {r}
                /\ UNCHANGED server
        /\ UNCHANGED budget
        /\ UNCHANGED <<viewVars, touched>>

\* the re-fetch issued by handleDeleteConfirm completes and it finishes
handleDeleteRefetch ==
    \E r \in inflight, outcome \in Outcomes :
        /\ r.op = "delete"
        /\ r.stage = "list"
        /\ LET eff == handleDeleteRefetched(UI, outcome, server) IN
            /\ Render(eff.ui)
            /\ lastEvent' = Event("handleDeleteConfirm", "refetched", outcome,
                                  eff.toasts)
        /\ inflight' = inflight \ {r}
        /\ UNCHANGED <<server, budget>>
        /\ UNCHANGED <<viewVars, touched>>

(***************************************************************************)
(* The status dialog.                                                      *)
(***************************************************************************)
\* the dialog's own dismissal (onOpenChange) only calls
\* setStatusDialogOpen(false); Cancel also clears businessToUpdateStatus
CloseStatusDialog ==
    \E via \in {"cancel", "dismiss"} :
        /\ statusDialogOpen
        /\ statusDialogOpen' = FALSE
        /\ businessToUpdateStatus' =
               IF via = "cancel" THEN NoBusiness ELSE businessToUpdateStatus
        /\ lastEvent' = UserEvent
        /\ UNCHANGED <<server, businesses, editingBusiness, isDialogOpen,
                       isAddMode, loading, deleteDialogOpen, businessToDelete,
                       isSaving, isDeleting, inflight, budget>>
        /\ UNCHANGED <<viewVars, touched>>

\* handleStatusChange up to its first await; the closure keeps the
\* businesses and businessToUpdateStatus of the render that was clicked
handleStatusChange ==
    \E newStatus \in StatusChoices :
        /\ statusDialogOpen
        /\ budget.requests > 0
        /\ IF businessToUpdateStatus = NoBusiness
           THEN /\ lastEvent' = Event("handleStatusChange", "click",
                                      "no-target", <<>>)
                /\ UNCHANGED <<inflight, budget>>
           ELSE /\ inflight' = inflight \cup
                       {Invocation(budget.requests, "status", "request",
                                   [businessToUpdateStatus
                                       EXCEPT !.status = newStatus],
                                   newStatus, businesses, {})}
                /\ budget' = [budget EXCEPT !.requests = @ - 1]
                /\ lastEvent' = Event("handleStatusChange", "click", "issued",
                                      <<>>)
        /\ UNCHANGED server
        /\ UNCHANGED uiVars
        /\ UNCHANGED <<viewVars, touched>>

\* handleStatusChanged without the test of data.status: every response that
\* parses is taken as a success
handleStatusChangedUnchecked(ui, r, outcome) ==
    IF outcome = "fail"
    THEN [ui |-> ui, toasts |-> <<"error: Failed to update status">>]
    ELSE [ui |-> [ui EXCEPT
                     !.businesses =
                         PatchStatus(r.closure, r.body.id, r.newStatus),
                     !.statusDialogOpen = FALSE,
                     !.businessToUpdateStatus = NoBusiness],
          toasts |-> <<"success: Status updated successfully">>]

\* the continuation of handleStatusChange after the update request
handleStatusChanged(ui, r, outcome) ==
    CASE outcome = "success" ->
            [ui |-> [ui EXCEPT
                        !.businesses =
                            PatchStatus(r.closure, r.body.id, r.newStatus),
                        !.statusDialogOpen = FALSE,
                        !.businessToUpdateStatus = NoBusiness],
             toasts |-> <<"success: Status updated successfully">>]
      [] outcome = "error" -> [ui |-> ui, toasts |-> <<>>]
      [] outcome = "fail" ->
            [ui |-> ui, toasts |-> <<"error: Failed to update status">>]

\* the status update request completes
handleStatusResponse ==
    \E r \in inflight, outcome \in Outcomes :
        /\ r.op = "status"
        /\ outcome = "success" => CanSucceed(r)
        /\ LET eff == handleStatusChanged(UI, r, outcome) IN
            /\ Render(eff.ui)
            /\ lastEvent' = Event("handleStatusChange", "response", outcome,
                                  eff.toasts)
        /\ server' = IF outcome = "success" THEN ServerApply(r) ELSE server
        /\ inflight' = inflight \ {r}
        /\ UNCHANGED budget
        /\ UNCHANGED <<viewVars, touched>>

Next ==
    \/ LoadResponse
    \/ handleStatusClick
    \/ handleEdit
    \/ handleAdd
    \/ handleDeleteClick
    \/ ChangeBusinessName
    \/ ChangePhone
    \/ ChangeBusinessType
    \/ ChangeComment
    \/ ChooseStatus
    \/ CloseDialog
    \/ handleSave
    \/ handleSaveResponse
    \/ handleSaveRefetch
    \/ CloseDeleteDialog
    \/ handleDeleteConfirm
    \/ handleDeleteResponse
    \/ handleDeleteRefetch
    \/ CloseStatusDialog
    \/ handleStatusChange
    \/ handleStatusResponse

Spec == Init /\ [][Next]_vars

\* the same component in a shorter session of the user
ShortSpec == Start(ShortRequests, ShortOpens) /\ [][Next]_vars

\* every request that is in flight completes (the fetch promise settles)
FairSpec ==
    /\ Start(FairRequests, FairOpens)
    /\ [][Next]_vars
    /\ WF_vars(LoadResponse)
    /\ WF_vars(handleSaveResponse)
    /\ WF_vars(handleSaveRefetch)
    /\ WF_vars(handleDeleteResponse)
    /\ WF_vars(handleDeleteRefetch)
    /\ WF_vars(handleStatusResponse)

(***************************************************************************)
(* The filter bar and the pagination controls.                             *)
(***************************************************************************)
\* useEffect(() => setCurrentPage(1), [searchName, searchPhone, sortBy]) with
\* the sort mode missing from the dependencies
ResetPageEffectNoSort(before, after, page) ==
    IF <<before[1], before[2]>> # <<after[1], after[2]>> THEN 1 ELSE page

\* useEffect(() => setCurrentPage(1), [searchName, searchPhone, sortBy]):
\* the page after the render in which the dependencies went from before to
\* after
ResetPageEffect(before, after, page) ==
    IF before # after THEN 1 ELSE page

\* a change of the filter bar together with the effect its render triggers
SetView(name, phone, mode) ==
    /\ PageInteractive
    /\ searchName' = name
    /\ searchPhone' = phone
    /\ sortBy' = mode
    /\ currentPage' = ResetPageEffect(<<searchName, searchPhone, sortBy>>,
                                      <<name, phone, mode>>, currentPage)
    /\ lastEvent' = Event("filters", "effect",
                          IF currentPage' = currentPage THEN "page-kept"
                          ELSE "page-reset", <<>>)
    /\ UNCHANGED <<server, uiVars, touched, inflight, budget>>

setSearchName ==
    \E v \in NameFilters :
        v # searchName /\ SetView(v, searchPhone, sortBy)

setSearchPhone ==
    \E v \in PhoneFilters :
        v # searchPhone /\ SetView(searchName, v, sortBy)

setSortBy ==
    \E v \in SortModes :
        v # sortBy /\ SetView(searchName, searchPhone, v)

\* the Clear Filters button, rendered while a filter or a sort is active
ClearFilters ==
    /\ searchName # <<>> \/ searchPhone # <<>> \/ sortBy # "none"
    /\ SetView(<<>>, <<>>, "none")

\* the pagination block is rendered for more than one page of records
PaginationShown == Len(filteredBusinesses) > itemsPerPage

\* the page-number buttons: count of them, with the start of their window
\* when there are more pages than buttons
PageNumbers(count, first) ==
    { IF totalPages <= count THEN k + 1 ELSE first + k :
        k \in 0..(Min(count, totalPages) - 1) }

MobilePageNumbers ==
    PageNumbers(3, IF currentPage = 1 THEN 1
                   ELSE IF currentPage = totalPages THEN totalPages - 2
                   ELSE currentPage - 1)

DesktopPageNumbers ==
    PageNumbers(5, IF currentPage <= 3 THEN 1
                   ELSE IF currentPage >= totalPages - 2 THEN totalPages - 4
                   ELSE currentPage - 2)

handlePageChange(page) ==
    /\ PageInteractive
    /\ PaginationShown
    /\ page <= MaxPage
    /\ currentPage' = page
    /\ lastEvent' = Event("handlePageChange", "click", "done", <<>>)
    /\ UNCHANGED <<server, uiVars, searchName, searchPhone, sortBy, touched,
                   inflight, budget>>

GoFirst == currentPage # 1 /\ handlePageChange(1)

GoPrevious == currentPage # 1 /\ handlePageChange(currentPage - 1)

GoToPage ==
    /\ PageInteractive
    /\ \E page \in MobilePageNumbers \cup DesktopPageNumbers :
          handlePageChange(page)

GoNext ==
    /\ PageInteractive
    /\ currentPage # totalPages
    /\ handlePageChange(currentPage + 1)

GoLast ==
    /\ PageInteractive
    /\ currentPage # totalPages
    /\ handlePageChange(totalPages)

ViewNext ==
    \/ setSearchName
    \/ setSearchPhone
    \/ setSortBy
    \/ ClearFilters
    \/ GoFirst
    \/ GoPrevious
    \/ GoToPage
    \/ GoNext
    \/ GoLast

\* the table after a successful initial load of one of the sample
\* collections, with the user working the filter bar and the pagination only
ViewInit ==
    \E data \in SampleCollections :
        /\ server = data
        /\ businesses = data
        /\ editingBusiness = NoBusiness
        /\ isDialogOpen = FALSE
        /\ isAddMode = FALSE
        /\ loading = FALSE
        /\ deleteDialogOpen = FALSE
        /\ businessToDelete = 0
        /\ statusDialogOpen = FALSE
        /\ businessToUpdateStatus = NoBusiness
        /\ isSaving = FALSE
        /\ isDeleting = FALSE
        /\ searchName = <<>>
        /\ searchPhone = <<>>
        /\ sortBy = "date-new"
        /\ currentPage = 1
        /\ touched = {}
        /\ inflight = {}
        /\ budget = [requests |-> 0, edits |-> 0, opens |-> 0]
        /\ lastEvent = Event("fetchBusinesses", "loaded", "success",
                             <<"success: Data loaded from MongoDB">>)

ViewSpec == ViewInit /\ [][ViewNext]_vars

\* the component on a server collection of one page and one record more,
\* with the user working the view and the delete flow
PageInit == StartWith(Generated(itemsPerPage + 1), PageRequests, PageOpens)

PageNext ==
    \/ LoadResponse
    \/ handleDeleteClick
    \/ CloseDeleteDialog
    \/ handleDeleteConfirm
    \/ handleDeleteResponse
    \/ handleDeleteRefetch
    \/ ViewNext

PageSpec == PageInit /\ [][PageNext]_vars

(***************************************************************************)
(* Properties.  lastEvent' names the handler step a transition takes.      *)
(***************************************************************************)
NotSucceeded == {"error", "fail"}

\* this step is handleSave resuming after a create/update request that failed
SaveFailedStep ==
    /\ lastEvent'.handler = "handleSave"
    /\ lastEvent'.step = "response"
    /\ lastEvent'.outcome \in NotSucceeded

\* C1: when the create/update request of a validated save fails (transport
\* failure or non-success status), the add/edit dialog that was open is still
\* open, with the same candidate, when handleSave has finished.
C1_FailedSaveKeepsDialogOpen ==
    [][ SaveFailedStep /\ isDialogOpen
          => isDialogOpen' /\ editingBusiness' = editingBusiness ]_vars

\* what the handler of invocation r does when its request ends with outcome
RequestEffect(r, outcome) ==
    CASE r.op = "load" -> fetchBusinesses(UI, outcome, server)
      [] r.op \in {"create", "update"} -> handleSaveFailed(UI, outcome)
      [] r.op = "delete" -> handleDeleteFailed(UI, outcome)
      [] r.op = "status" -> handleStatusChanged(UI, r, outcome)

\* C2: in load, save, delete and status change, a response whose status is
\* not "success" is handled exactly as a transport failure of that request:
\* the same notification and the same resulting UI state.
C2_NonSuccessHandledAsTransportFailure ==
    \A r \in inflight :
        (r.op = "load" \/ r.stage = "request")
            => RequestEffect(r, "error") = RequestEffect(r, "fail")

\* this step is a press of Save on a candidate whose phone trims to nothing
BlankPhoneSaveStep ==
    /\ lastEvent'.handler = "handleSave"
    /\ lastEvent'.step = "click"
    /\ editingBusiness # NoBusiness
    /\ Trim(editingBusiness.phone) = <<>>

\* C3: a save whose candidate phone is empty or whitespace-only is rejected:
\* no request is issued, the in-memory and the server collection are
\* unchanged, isSaving stays false, the dialog stays open and an error
\* notification is emitted.
C3_BlankPhoneRejected ==
    [][ BlankPhoneSaveStep
          => /\ inflight' = inflight
             /\ budget' = budget
             /\ businesses' = businesses
             /\ server' = server
             /\ ~isSaving /\ ~isSaving'
             /\ isDialogOpen /\ isDialogOpen'
             /\ editingBusiness' = editingBusiness
             /\ lastEvent'.toasts = <<"error: Phone number is required">>
      ]_vars

\* a save of a whitespace-only (not empty) phone has just been rejected
C3_Witness ==
    /\ lastEvent.handler = "handleSave"
    /\ lastEvent.outcome = "phone-required"
    /\ isDialogOpen
    /\ editingBusiness.phone # <<>>
    /\ Trim(editingBusiness.phone) = <<>>

\* this step is a press of Save on a candidate with a non-blank phone
PhoneSaveStep ==
    /\ lastEvent'.handler = "handleSave"
    /\ lastEvent'.step = "click"
    /\ editingBusiness # NoBusiness
    /\ Trim(editingBusiness.phone) # <<>>

\* C4: a save is rejected, with no request and no change to the collection,
\* exactly when some record of the in-memory collection has the candidate's
\* phone and a different id; an edit that keeps the record's own phone is not
\* rejected, and an add whose phone equals any existing record's phone is
\* rejected.
C4_DuplicatePhoneRule ==
    [][ PhoneSaveStep
          => /\ lastEvent'.outcome = "duplicate"
                  <=> \E i \in 1..Len(businesses) :
                          /\ businesses[i].phone = editingBusiness.phone
                          /\ businesses[i].id # editingBusiness.id
             /\ lastEvent'.outcome = "duplicate"
                  => /\ inflight' = inflight
                     /\ businesses' = businesses
                     /\ server' = server
             /\ lastEvent'.outcome # "duplicate"
                  => lastEvent'.outcome = "issued" /\ inflight' # inflight
             /\ (isAddMode /\ \E i \in 1..Len(businesses) :
                                 businesses[i].phone = editingBusiness.phone)
                  => lastEvent'.outcome = "duplicate"
      ]_vars

\* this step is handleSave or handleDeleteConfirm finishing after its
\* re-fetch, with the success notification
MutationFinished ==
    /\ lastEvent.handler \in {"handleSave", "handleDeleteConfirm"}
    /\ lastEvent.step = "refetched"

\* C5: after a successful create, update or delete, once the handler has
\* finished and reported success, the in-memory collection equals the
\* server's collection as of the re-fetch, whatever the re-fetch's outcome.
C5_CacheRefreshedAfterMutation ==
    MutationFinished => businesses = server

\* this step is a save, delete or status-change handler resuming after a
\* request that failed
FailedRequestStep ==
    /\ lastEvent'.handler \in
           {"handleSave", "handleDeleteConfirm", "handleStatusChange"}
    /\ lastEvent'.step = "response"
    /\ lastEvent'.outcome \in NotSucceeded

\* C6: when the request of a save, delete or status change fails, the
\* handler writes nothing to the in-memory collection, and a failed status
\* change leaves the status dialog as it was (open).
C6_FailedRequestWritesNothing ==
    [][ FailedRequestStep
          => /\ businesses' = businesses
             /\ lastEvent'.handler = "handleStatusChange"
                  => /\ statusDialogOpen' = statusDialogOpen
                     /\ businessToUpdateStatus' = businessToUpdateStatus
      ]_vars

\* a status change has just failed with the status dialog still open on a
\* record of the collection
C6_Witness ==
    /\ lastEvent.handler = "handleStatusChange"
    /\ lastEvent.step = "response"
    /\ lastEvent.outcome \in NotSucceeded
    /\ statusDialogOpen
    /\ businessToUpdateStatus # NoBusiness
    /\ businesses # <<>>

SavesInFlight == { r \in inflight : r.op \in {"create", "update"} }

\* C7: isSaving is false whenever no handleSave invocation is in progress,
\* it is not set by a rejected save, every path on which handleSave finishes
\* ends with isSaving = false, and with requests completing isSaving = true
\* leads to isSaving = false.
C7_SavingFlagCleared ==
    /\ [](SavesInFlight = {} => ~isSaving)
    /\ [][ (lastEvent'.handler = "handleSave" /\ lastEvent'.step = "click"
              /\ lastEvent'.outcome # "issued") => ~isSaving' ]_vars
    /\ [][ (lastEvent'.handler = "handleSave"
              /\ \/ lastEvent'.step = "refetched"
                 \/ lastEvent'.step = "response"
                      /\ lastEvent'.outcome \in NotSucceeded) => ~isSaving'
         ]_vars
    /\ isSaving ~> ~isSaving

\* handleSave has just finished through its catch and cleared the flag
C7_Witness ==
    /\ lastEvent.handler = "handleSave"
    /\ lastEvent.step = "response"
    /\ lastEvent.outcome = "fail"
    /\ ~isSaving

LoadsInFlight == { r \in inflight : r.op = "load" }

\* C8: the initial load issues exactly one list request; whatever its outcome
\* the loading flag eventually becomes false and never becomes true again; on
\* success the collection is the server's response, on failure it remains
\* the initial empty collection.
C8_InitialLoad ==
    /\ [][ LoadsInFlight' \subseteq LoadsInFlight ]_vars
    /\ [](loading <=> Cardinality(LoadsInFlight) = 1)
    /\ [](~loading => LoadsInFlight = {})
    /\ <>(~loading)
    /\ [][ ~loading => ~loading' ]_vars
    /\ [](lastEvent.handler = "fetchBusinesses"
            => businesses = IF lastEvent.outcome = "success"
                            THEN server ELSE <<>>)

\* the initial load has just failed: the flag is clear, the collection empty
C8_Witness ==
    /\ lastEvent.handler = "fetchBusinesses"
    /\ lastEvent.outcome \in NotSucceeded
    /\ ~loading
    /\ businesses = <<>>

DeletesInFlight == { r \in inflight : r.op = "delete" }

\* handleDeleteConfirm has just finished, by whichever path
DeleteFinished ==
    /\ lastEvent.handler = "handleDeleteConfirm"
    /\ \/ lastEvent.step = "refetched"
       \/ lastEvent.step = "response" /\ lastEvent.outcome \in NotSucceeded

HasToast(t) == \E i \in 1..Len(lastEvent.toasts) : lastEvent.toasts[i] = t

\* C9: after handleDeleteConfirm finishes by any path the delete dialog is
\* closed, businessToDelete is null and isDeleting is false; the success
\* notification is emitted only after the delete request succeeded; and while
\* isDeleting is true no second delete request is issued.
C9_DeleteCleanup ==
    /\ DeleteFinished
         => ~deleteDialogOpen /\ businessToDelete = 0 /\ ~isDeleting
    /\ HasToast("success: Business deleted from MongoDB")
         => lastEvent.handler = "handleDeleteConfirm"
              /\ lastEvent.step = "refetched"
    /\ lastEvent.handler = "handleDeleteConfirm" /\ lastEvent.step = "response"
         /\ lastEvent.outcome \in NotSucceeded
         => ~HasToast("success: Business deleted from MongoDB")
    /\ Cardinality(DeletesInFlight) <= 1
    /\ isDeleting <=> DeletesInFlight # {}

\* handleDeleteConfirm has just finished on a failed request, after the user
\* had chosen a record of the collection
C9_Witness ==
    /\ lastEvent.handler = "handleDeleteConfirm"
    /\ lastEvent.step = "response"
    /\ lastEvent.outcome \in NotSucceeded
    /\ ~deleteDialogOpen
    /\ businesses # <<>>

\* C10: a successful status change of record R to s changes the in-memory
\* collection only in R's status: R's other fields, the other records, the
\* length and the order are unchanged, no list request is issued, and the
\* status dialog is closed with businessToUpdateStatus = null.
C10_StatusChangeFrame ==
    [][ \A r \in inflight :
          ( /\ r.op = "status"
            /\ r \notin inflight'
            /\ lastEvent'.handler = "handleStatusChange"
            /\ lastEvent'.step = "response"
            /\ lastEvent'.outcome = "success" )
          => /\ Len(businesses') = Len(businesses)
             /\ \A i \in 1..Len(businesses) :
                   businesses'[i] =
                       IF businesses[i].id = r.body.id
                       THEN [businesses[i] EXCEPT !.status = r.newStatus]
                       ELSE businesses[i]
             /\ inflight' = inflight \ {r}
             /\ ~statusDialogOpen'
             /\ businessToUpdateStatus' = NoBusiness
      ]_vars

\* the records of a list that carry a given id
WithId(list, id) == { list[k] : k \in {j \in 1..Len(list) : list[j].id = id} }

\* two sets of records agree on id, phone and status
SameIdentity(before, after) ==
    { [id |-> b.id, phone |-> b.phone, status |-> b.status] : b \in before }
      = { [id |-> b.id, phone |-> b.phone, status |-> b.status] : b \in after }

\* the save of an edit session in which only the comment was changed
CommentOnlyUpdate(r) ==
    r.op = "update" /\ r.edited = {"comment"}

\* C11: when the save of an edit session that changed only the comment
\* succeeds, the record with that id keeps its id, phone and status: on the
\* server when the update is applied, and in the in-memory collection when
\* the handler's re-fetch has replaced it
C11_CommentEditKeepsIdentity ==
    [][ \A r \in inflight :
          ( CommentOnlyUpdate(r) /\ r \notin inflight'
            /\ lastEvent'.handler = "handleSave"
            /\ lastEvent'.outcome = "success" )
          => /\ lastEvent'.step = "response" =>
                   SameIdentity(WithId(server, r.body.id),
                                WithId(server', r.body.id))
             /\ lastEvent'.step = "refetched" =>
                   SameIdentity(WithId(businesses, r.body.id),
                                WithId(businesses', r.body.id)) ]_vars

\* C12: when a confirmed delete of the id captured by handleDeleteClick was
\* answered with success and handleDeleteConfirm finishes, the in-memory
\* collection holds no record with that id and still holds every other record
\* it held, unchanged
C12_DeleteRemovesExactlyTarget ==
    [][ \A r \in inflight :
          ( r.op = "delete" /\ r.stage = "list" /\ r \notin inflight' )
          => /\ WithId(businesses', r.body.id) = {}
             /\ \A k \in 1..Len(businesses) :
                   businesses[k].id # r.body.id =>
                      \E j \in 1..Len(businesses') :
                          businesses'[j] = businesses[k] ]_vars

\* C13: in every reachable state the ids of the records of the in-memory
\* collection are pairwise distinct
C13_CacheIdsDistinct ==
    \A j, k \in 1..Len(businesses) :
        businesses[j].id = businesses[k].id => j = k

\* the step in which the success response of status request r is processed
StatusSucceededStep(r) ==
    /\ r.op = "status" /\ r \in inflight /\ r \notin inflight'
    /\ lastEvent'.handler = "handleStatusChange"
    /\ lastEvent'.step = "response"
    /\ lastEvent'.outcome = "success"

\* C20: processing the success response of a status request for R turns the
\* in-memory collection into the collection it was just before with only R's
\* status replaced: no record that a re-fetch removed in the meantime comes
\* back and no record that it changed reverts
C20_StatusPatchOnCurrentCollection ==
    [][ \A r \in inflight :
          StatusSucceededStep(r) =>
             /\ businesses' = PatchStatus(businesses, r.body.id, r.newStatus)
             /\ Ids(businesses') \subseteq Ids(businesses)
             /\ \A b \in WithId(businesses', r.body.id) :
                   b.status = r.newStatus ]_vars

\* C14: a step that changes the name filter, the phone filter or the sort
\* mode (Clear Filters included) ends with the current page at 1
C14_ViewChangeResetsPage ==
    [][ <<searchName, searchPhone, sortBy>>' # <<searchName, searchPhone, sortBy>>
          => currentPage' = 1 ]_vars

\* the sort mode was changed while a later page was shown: the effect has
\* moved the view to the first of several pages
C14_Witness ==
    /\ lastEvent = Event("filters", "effect", "page-reset", <<>>)
    /\ sortBy = "date-old"
    /\ searchName = <<>> /\ searchPhone = <<>>
    /\ totalPages > 1
    /\ currentPage = 1

\* the least number of pages of itemsPerPage records that hold n records
PagesNeeded(n) ==
    CHOOSE p \in 0..n : p * itemsPerPage >= n /\ (p = 0 \/ (p - 1) * itemsPerPage < n)

\* C15: for a filtered list of N records totalPages is max(1, ceil(N / 30)),
\* so it is 1 when the filtered list is empty
C15_TotalPagesAtLeastOne ==
    totalPages = IF PagesNeeded(Len(filteredBusinesses)) >= 1
                 THEN PagesNeeded(Len(filteredBusinesses))
                 ELSE 1

\* C16: in every reachable state the current page lies between 1 and the
\* number of pages (taken as at least 1), whatever navigation, filter or sort
\* changes and collection changes came before
C16_PageWithinRange ==
    /\ currentPage >= 1
    /\ currentPage <= (IF totalPages >= 1 THEN totalPages ELSE 1)

RECURSIVE Concat(_, _)
\* the pages 1..last of a list, one after the other
Concat(list, last) ==
    IF last = 0 THEN <<>>
    ELSE Concat(list, last - 1) \o PageOf(list, last)

\* C17: the pages 1..ceil(N / 30) partition the filtered list of length N:
\* page p holds the positions 30(p-1) .. min(30p, N) - 1 (counted from 0) in
\* order, every page but the last has 30 records, the last has 1 to 30, and
\* the pages one after the other give the filtered list
C17_PagesPartitionFilteredList ==
    LET list == filteredBusinesses
        N == Len(list)
        last == PagesNeeded(N)
    IN  /\ \A p \in 1..last :
              /\ PageOf(list, p) =
                    [k \in 1..((IF itemsPerPage * p <= N
                                THEN itemsPerPage * p ELSE N)
                               - itemsPerPage * (p - 1)) |->
                        list[itemsPerPage * (p - 1) + k]]
              /\ p < last => Len(PageOf(list, p)) = itemsPerPage
              /\ p = last => Len(PageOf(list, p)) \in 1..itemsPerPage
        /\ Concat(list, last) = list

\* the third page of a filtered list of two full pages and one record more
C17_Witness ==
    /\ Len(filteredBusinesses) = 2 * itemsPerPage + 1
    /\ currentPage = 3
    /\ Len(paginatedBusinesses) = 1
    /\ paginatedBusinesses[1] = filteredBusinesses[Len(filteredBusinesses)]

\* sub occurs in s: s is some text, then sub, then some text
Occurs(sub, s) ==
    \E from \in 1..(Len(s) + 1), to \in 0..Len(s) :
        /\ to - from + 1 = Len(sub)
        /\ \A k \in 1..Len(sub) : s[from + k - 1] = sub[k]

\* the record passes both filters: the name regardless of case, the phone
\* as typed
Passes(b) ==
    /\ Occurs(toLowerCase(searchName), toLowerCase(b.businessName))
    /\ Occurs(searchPhone, b.phone)

\* C18: the filtered view holds exactly the records of the collection whose
\* lower-cased name contains the lower-cased name filter and whose phone
\* contains the phone filter; with both filters empty it holds every record;
\* under sort mode none it keeps the collection order; and no step of the
\* filter bar or the pagination changes the collection
C18_FilteredViewIsExactlyTheMatches ==
    /\ [] LET matching == SelectSeq(businesses, Passes) IN
          /\ Len(filteredBusinesses) = Len(matching)
          /\ { filteredBusinesses[k] : k \in 1..Len(filteredBusinesses) }
                = { matching[k] : k \in 1..Len(matching) }
          /\ (searchName = <<>> /\ searchPhone = <<>>) =>
                Len(filteredBusinesses) = Len(businesses)
          /\ sortBy = "none" => filteredBusinesses = matching
    /\ [][ lastEvent'.handler \in {"filters", "handlePageChange"}
             => businesses' = businesses ]_vars

\* a name filter in upper case has kept the records whose names hold the
\* letter in either case and dropped another, in collection order
C18_Witness ==
    /\ searchName = <<"B">>
    /\ searchPhone = <<"2">>
    /\ sortBy = "none"
    /\ Len(businesses) = MaxSmall
    /\ Len(filteredBusinesses) = 2
    /\ \E k \in 1..Len(businesses) : ~Passes(businesses[k])
    /\ \E k \in 1..Len(filteredBusinesses) :
          filteredBusinesses[k].businessName = <<"b">>

\* the filtered list under one of the two date modes
ByDate(mode) == FilterSort(businesses, searchName, searchPhone, mode)

\* the records of a list that carry a timestamp, in the order of the list
Timestamped(list) == SelectSeq(list, LAMBDA b : b.createdAt # 0)

Reverse(list) == [k \in 1..Len(list) |-> list[Len(list) + 1 - k]]

\* in the list every record without a timestamp stands behind every record
\* with one
MissingLast(list) ==
    \A j, k \in 1..Len(list) :
        (list[j].createdAt = 0 /\ list[k].createdAt # 0) => k < j

\* the timestamps of the list are pairwise different
DistinctTimestamps(list) ==
    \A j, k \in 1..Len(list) :
        list[j].createdAt = list[k].createdAt => j = k

\* C19 as stated: in both date modes the records without a timestamp come
\* last, and the timestamped records under date-old stand in exactly the
\* reverse of their order under date-new, for every collection
C19_DateOldReversesDateNew ==
    /\ MissingLast(ByDate("date-new"))
    /\ MissingLast(ByDate("date-old"))
    /\ Timestamped(ByDate("date-old")) = Reverse(Timestamped(ByDate("date-new")))

\* C19 amended: in both date modes the records without a timestamp come
\* last; date-new puts the timestamped records in non-increasing and date-old
\* in non-decreasing order of timestamp; date-old is exactly the reverse of
\* date-new when the timestamps are pairwise different
C19_DateOrdersAmended ==
    LET new == Timestamped(ByDate("date-new"))
        old == Timestamped(ByDate("date-old"))
    IN  /\ MissingLast(ByDate("date-new"))
        /\ MissingLast(ByDate("date-old"))
        /\ \A k \in 1..(Len(new) - 1) : new[k].createdAt >= new[k + 1].createdAt
        /\ \A k \in 1..(Len(old) - 1) : old[k].createdAt <= old[k + 1].createdAt
        /\ DistinctTimestamps(new) => old = Reverse(new)

\* oldest first is on screen for a collection with two different timestamps
\* and a record without one
C19_Witness ==
    /\ sortBy = "date-old"
    /\ Len(filteredBusinesses) = MaxSmall
    /\ Len(Timestamped(filteredBusinesses)) = 2
    /\ DistinctTimestamps(Timestamped(filteredBusinesses))
    /\ filteredBusinesses[1].createdAt < filteredBusinesses[2].createdAt
    /\ filteredBusinesses[MaxSmall].createdAt = 0
    /\ businesses[1].createdAt = 0

\* the step is the Cancel or the dismissal of the status dialog
StatusDialogClosedByUser ==
    /\ lastEvent' = UserEvent
    /\ inflight' = inflight
    /\ businesses' = businesses

\* the step processes the success of a status request issued for the record
\* the status dialog is open for
StatusSucceededForOpenRecord ==
    \E r \in inflight :
        /\ StatusSucceededStep(r)
        /\ r.body.id = businessToUpdateStatus.id

\* C21: a status dialog that is open for record B is closed, and
\* businessToUpdateStatus is cleared, only by the dialog's Cancel or
\* dismissal or by the success of a status request issued for B; the
\* response of a request issued earlier for another record does neither
C21_StatusDialogClosedByOwnSession ==
    [][ ( /\ statusDialogOpen
          /\ businessToUpdateStatus # NoBusiness
          /\ \/ ~statusDialogOpen'
             \/ businessToUpdateStatus' # businessToUpdateStatus )
        => \/ StatusDialogClosedByUser
           \/ StatusSucceededForOpenRecord ]_vars

\* C22: at any time at most one create/update issued by handleSave and at
\* most one delete issued by handleDeleteConfirm are under way, and while one
\* is, the flag that disables its control is set
C22_OneSaveAndOneDeleteInFlight ==
    /\ Cardinality({ r \in inflight : r.op \in {"create", "update"} }) <= 1
    /\ Cardinality({ r \in inflight : r.op = "delete" }) <= 1
    /\ (\E r \in inflight : r.op \in {"create", "update"}) => isSaving
    /\ (\E r \in inflight : r.op = "delete") => isDeleting

\* a save is pending with the dialog still open on a candidate that would
\* pass validation, and the user could still issue a request: only the
\* disabled Save button stands in the way of a second one
C22_Witness ==
    /\ \E r \in inflight : r.op \in {"create", "update"} /\ r.stage = "request"
    /\ isDialogOpen
    /\ isSaving
    /\ budget.requests > 0
    /\ handleSaveValidate(UI, businesses).outcome = "issued"

====
